---- MODULE Spec2Model ----
(***************************************************************************)
(* obsidian-rag-cli: the retrieval pipeline of src/obsidian_rag.           *)
(*                                                                         *)
(* Two vaults, "A" and "B", are indexed into Chroma collections named      *)
(* after the vault (core/indexer.py), searched and packed into a RAG       *)
(* context (core/searcher.py) through the entry points of api/client.py.   *)
(*                                                                         *)
(* Conventions.  A path is written relative to its vault root, and a full  *)
(* path is the record [root, rel].  Scores are in tenths (0.3 is 3).  An   *)
(* exception is the string of its class, "none" when nothing was raised.   *)
(* The embedding model and the vector database are the environment: what   *)
(* they return or raise is chosen by the actions' \E.                      *)
(***************************************************************************)
EXTENDS Integers, Sequences, FiniteSets, TLC

VARIABLES
    config_files,   \* the global config.toml and each vault's .orag.toml
    vault_config,   \* vault -> VaultConfig(name, dirs, vector_store)
    store,          \* vector-store location -> directory state on disk
    runs,           \* number of index runs that reached create_index
    pc,             \* position inside ObsidianRAG.index_vault
    call,           \* the index_vault call in progress or last made
    ret,            \* what the last operation returned to its caller
    log,            \* class of the exception the last operation logged
    self_index      \* vault -> VectorSearcher._index of a long-lived searcher

vars == <<config_files, vault_config, store, runs, pc, call, ret, log, self_index>>

---------------------------------------------------------------------------
(* Bounds *)

\* index runs that reach the vector store
MaxRuns == 2
\* largest top_k / max_sources a caller passes
MaxTopK == 2
\* most entries of vault_config.dirs when only scanning
MaxDirs == 3
\* most records another writer left in a collection
MaxForeign == 6

---------------------------------------------------------------------------
(* Program constants *)

\* GlobalConfig.chunk_size
chunk_size == 512
\* GlobalConfig.min_relevance_score, in tenths
min_relevance_score == 3
\* "Only add if meaningful content remains"
MinRemaining == 100
\* GlobalConfig.chunk_overlap
chunk_overlap == 50
\* GlobalConfig.default_top_k
default_top_k == 5
\* GlobalConfig.default_max_chars
default_max_chars == 10000
\* max_sources or 5
default_max_sources == 5

---------------------------------------------------------------------------
(* The input: two vaults on disk *)

Vaults == {"A", "B"}
Locs == {"L1", "L2"}

\* the markdown files below each vault root
MdFiles(v) == IF v = "A" THEN {"a.md", "n/b.md", "n/c.md"} ELSE {"a.md"}

\* the path full_path / rel of a file found below full_path = root / "n/..":
\* pathlib keeps the ".." component
UpFromN(rel) ==
    CASE rel = "a.md" -> "n/../a.md"
      [] rel = "n/b.md" -> "n/../n/b.md"
      [] rel = "n/c.md" -> "n/../n/c.md"
      [] OTHER -> rel

\* the file on disk a relative path leads to
Resolve(rel) ==
    CASE rel = "n/../a.md" -> "a.md"
      [] rel = "n/../n/b.md" -> "n/b.md"
      [] rel = "n/../n/c.md" -> "n/c.md"
      [] OTHER -> rel

\* n/c.md is not valid UTF-8: read_text raises on it
Readable(rel) == Resolve(rel) # "n/c.md"

\* the characters of each chunk the splitter cuts a file into
ChunkChars(rel) ==
    CASE Resolve(rel) = "a.md" -> <<600>>
      [] Resolve(rel) = "n/b.md" -> <<900, 300>>
      [] OTHER -> <<>>

FileName(rel) ==
    CASE Resolve(rel) = "a.md" -> "a.md"
      [] Resolve(rel) = "n/b.md" -> "b.md"
      [] Resolve(rel) = "n/c.md" -> "c.md"
      [] OTHER -> rel

\* the configured entries a vault's dirs may list
DirConfigs == {<<".">>, <<"n", "a.md">>, <<"gone">>}

\* the entries vault_config.dirs is made of when only scanning: "n/.." names
\* the vault root as "." does
DirEntries == {".", "n", "n/..", "a.md", "gone"}

\* order of the relative paths as pathlib compares them, part by part
PathOrder == <<"a.md", "n/../a.md", "n/../n/b.md", "n/../n/c.md", "n/b.md", "n/c.md">>

\* position of a relative path in that order
PathRank(rel) == CHOOSE i \in 1..Len(PathOrder) : PathOrder[i] = rel

RECURSIVE SumSeq(_)
SumSeq(s) == IF s = <<>> THEN 0 ELSE Head(s) + SumSeq(Tail(s))

RECURSIVE Flatten(_)
Flatten(ss) == IF ss = <<>> THEN <<>> ELSE Head(ss) \o Flatten(Tail(ss))

Range(s) == {s[i] : i \in 1..Len(s)}

Min(a, b) == IF a < b THEN a ELSE b

---------------------------------------------------------------------------
(* The vector store on disk *)

Chunk == [run : 1..(MaxRuns + 1), file_path : Range(PathOrder), part : 1..2]

\* a location that does not exist
NoDir == [exists |-> FALSE, has |-> {}, chunks |-> [n \in Vaults |-> {}]]

vector_store_path(v) == vault_config[v].vector_store

\* every chunk stored at a location, in any collection
ChunksAt(st, loc) == UNION {st[loc].chunks[n] : n \in Vaults}

---------------------------------------------------------------------------
(* core/config.py *)

\* data.get(table, {}).get(key, default) on a parsed file: a key of the
\* file is <<>> when absent and <<value>> when present
get(entry, default) == IF entry = <<>> THEN default ELSE entry[1]

\* GlobalConfig(), every field at its default
GlobalConfig ==
    [chunk_size |-> chunk_size, chunk_overlap |-> chunk_overlap,
     default_top_k |-> default_top_k, default_max_chars |-> default_max_chars,
     min_relevance_score |-> min_relevance_score]

\* the values a config.toml may give to chunking.size, chunking.overlap and
\* search.min_relevance_score (tenths)
SizeValues == {50, 512}
OverlapValues == {50, 600}
ScoreValues == {3, 15}

Optional(values) == {<<>>} \cup {<<x>> : x \in values}

\* a config.toml: missing, not TOML, or parsed; typed is whether every
\* value present has a type GlobalConfig accepts
GlobalFile(state, size, overlap, score, typed) ==
    [state |-> state, size |-> size, overlap |-> overlap,
     min_relevance_score |-> score, typed |-> typed]

GlobalFiles ==
    {GlobalFile("missing", <<>>, <<>>, <<>>, TRUE),
     GlobalFile("malformed", <<>>, <<>>, <<>>, TRUE)} \cup
    {GlobalFile("parsed", size, overlap, score, typed) :
        size \in Optional(SizeValues), overlap \in Optional(OverlapValues),
        score \in Optional(ScoreValues), typed \in BOOLEAN}

\* the file create_default_global_config writes
create_default_global_config ==
    GlobalFile("parsed", <<chunk_size>>, <<chunk_overlap>>, <<min_relevance_score>>, TRUE)

\* ConfigLoader.load_global_config: [config, file], the file as it leaves it
load_global_config(file) ==
    LET present == IF file.state = "missing" THEN create_default_global_config
                   ELSE file
    IN  IF present.state = "malformed" \/ ~present.typed
        THEN [config |-> GlobalConfig, file |-> present]
        ELSE [config |->
                 [GlobalConfig EXCEPT
                     !.chunk_size = get(present.size, chunk_size),
                     !.chunk_overlap = get(present.overlap, chunk_overlap),
                     !.min_relevance_score =
                         get(present.min_relevance_score, min_relevance_score)],
              file |-> present]

\* the values a .orag.toml may give to vault.name, vault.dirs and
\* storage.vector_store
NameValues == {"notes"}
DirsValues == {<<"n", "a.md">>}
VectorStoreValues == {"shared"}

\* an .orag.toml: missing, not TOML, or parsed; typed is whether every
\* value present has a type VaultConfig accepts
VaultFile(state, name, dirs, vector_store, typed) ==
    [state |-> state, name |-> name, dirs |-> dirs,
     vector_store |-> vector_store, typed |-> typed]

VaultFiles ==
    {VaultFile("missing", <<>>, <<>>, <<>>, TRUE),
     VaultFile("malformed", <<>>, <<>>, <<>>, TRUE)} \cup
    {VaultFile("parsed", name, dirs, vector_store, typed) :
        name \in Optional(NameValues), dirs \in Optional(DirsValues),
        vector_store \in Optional(VectorStoreValues), typed \in BOOLEAN}

\* the .orag.toml that a VaultConfig was read from
VaultFileOf(config) ==
    VaultFile("parsed", <<config.name>>, <<config.dirs>>, <<config.vector_store>>, TRUE)

\* vault_path.name
vault_path_name(v) == v

\* load_vault_config answering a missing file with the defaults, as
\* load_global_config does
load_vault_config_defaults(file, v) ==
    IF file.state = "missing" \/ file.state = "malformed" \/ ~file.typed
    THEN [raised |-> "none",
          config |-> [name |-> vault_path_name(v), dirs |-> <<".">>,
                      vector_store |-> ".vector_store"]]
    ELSE [raised |-> "none",
          config |-> [name |-> get(file.name, vault_path_name(v)),
                      dirs |-> get(file.dirs, <<".">>),
                      vector_store |-> get(file.vector_store, ".vector_store")]]

\* ConfigLoader.load_vault_config: [raised] or [raised, config]
load_vault_config(file, v) ==
    IF file.state = "missing"
    THEN [raised |-> "FileNotFoundError"]
    ELSE IF file.state = "malformed" \/ ~file.typed
    THEN [raised |-> "ValueError"]
    ELSE [raised |-> "none",
          config |-> [name |-> get(file.name, vault_path_name(v)),
                      dirs |-> get(file.dirs, <<".">>),
                      vector_store |-> get(file.vector_store, ".vector_store")]]

\* the files the configuration in use was loaded from
LoadedFiles ==
    [global |-> create_default_global_config,
     vault |-> [v \in Vaults |-> VaultFileOf(vault_config[v])]]

---------------------------------------------------------------------------
(* core/indexer.py *)

full_path_exists(v, dir_path) ==
    \/ dir_path = "."
    \/ dir_path = "a.md"
    \/ dir_path \in {"n", "n/.."} /\ v = "A"

is_file(v, dir_path) == dir_path = "a.md"

is_dir(v, dir_path) == full_path_exists(v, dir_path) /\ ~is_file(v, dir_path)

rglob_md(v, dir_path) ==
    IF dir_path = "." THEN MdFiles(v)
    ELSE IF dir_path = "n/.." THEN {UpFromN(rel) : rel \in MdFiles(v)}
    ELSE {rel \in MdFiles(v) : rel \in {"n/b.md", "n/c.md"}}

\* the md_files list after the loop over vault_config.dirs, as the set of
\* its elements (the list is only ever passed to set())
RECURSIVE scan_loop(_, _)
scan_loop(v, dirs) ==
    IF dirs = <<>> THEN {}
    ELSE LET dir_path == Head(dirs)
             found == IF ~full_path_exists(v, dir_path) THEN {}
                      ELSE IF is_file(v, dir_path) THEN {dir_path}
                      ELSE IF is_dir(v, dir_path) THEN rglob_md(v, dir_path)
                      ELSE {}
         IN  {[root |-> v, rel |-> r] : r \in found} \cup scan_loop(v, Tail(dirs))

\* sorted(set(md_files))
sorted_set(paths) ==
    LET keep(rel) == \E p \in paths : p.rel = rel
        rels == SelectSeq(PathOrder, keep)
    IN  [i \in 1..Len(rels) |-> CHOOSE p \in paths : p.rel = rels[i]]

scan_documents(v) == sorted_set(scan_loop(v, vault_config[v].dirs))

load_documents(v, file_paths) ==
    LET ok(p) == Readable(p.rel) /\ p.root = v
        read == SelectSeq(file_paths, ok)
    IN  [i \in 1..Len(read) |->
            [file_path |-> read[i].rel,
             file_name |-> FileName(read[i].rel),
             vault |-> vault_config[v].name,
             chars |-> SumSeq(ChunkChars(read[i].rel))]]

\* SentenceSplitter: the nodes of the documents, in document order
split_documents(documents) ==
    Flatten([i \in 1..Len(documents) |->
        [part \in 1..Len(ChunkChars(documents[i].file_path)) |->
            [file_path |-> documents[i].file_path, part |-> part]]])

\* create_index with one collection name for every vault
create_index_one_collection(st, v, documents, run, fail, written) ==
    LET loc == vector_store_path(v)
        name == "B"
        made == [st EXCEPT ![loc].exists = TRUE]
        coll == [made EXCEPT ![loc].has = @ \cup {name}]
        nodes == split_documents(documents)
        kept == IF fail = "insert" THEN SubSeq(nodes, 1, written) ELSE nodes
        full == [coll EXCEPT ![loc].chunks[name] = @ \cup
                    {[run |-> run, file_path |-> n.file_path, part |-> n.part] :
                        n \in Range(kept)}]
    IN  CASE fail = "embed_model" -> [store |-> st, raised |-> fail]
          [] fail = "client" -> [store |-> made, raised |-> fail]
          [] fail = "insert" -> [store |-> full, raised |-> fail]
          [] OTHER -> [store |-> full, raised |-> "none"]

\* fail: where the backend raises ("none", "embed_model", "client",
\* "insert"); written: how many nodes were stored before an "insert" failure
create_index(st, v, documents, run, fail, written) ==
    LET loc == vector_store_path(v)
        name == vault_config[v].name
        made == [st EXCEPT ![loc].exists = TRUE]
        coll == [made EXCEPT ![loc].has = @ \cup {name}]
        nodes == split_documents(documents)
        kept == IF fail = "insert" THEN SubSeq(nodes, 1, written) ELSE nodes
        full == [coll EXCEPT ![loc].chunks[name] = @ \cup
                    {[run |-> run, file_path |-> n.file_path, part |-> n.part] :
                        n \in Range(kept)}]
    IN  CASE fail = "embed_model" -> [store |-> st, raised |-> fail]
          [] fail = "client" -> [store |-> made, raised |-> fail]
          [] fail = "insert" -> [store |-> full, raised |-> fail]
          [] OTHER -> [store |-> full, raised |-> "none"]

NoFilesMessage == "No markdown files found in specified directories"

IndexResult(status, documents_indexed, chunks_created, errors) ==
    [op |-> "index_vault", status |-> status,
     documents_indexed |-> documents_indexed,
     chunks_created |-> chunks_created, errors |-> errors]

\* index_vault that makes the vector-store directory before it scans
index_vault_mkdir_first(st, v, run, fail, written) ==
    LET early == [st EXCEPT ![vector_store_path(v)].exists = TRUE]
        file_paths == scan_documents(v)
        documents == load_documents(v, file_paths)
        made == create_index(early, v, documents, run, fail, written)
        total_chars == SumSeq([i \in 1..Len(documents) |-> documents[i].chars])
    IN  IF file_paths = <<>>
        THEN [store |-> early, log |-> "none",
              result |-> IndexResult("error", 0, 0, <<NoFilesMessage>>)]
        ELSE IF made.raised # "none"
        THEN [store |-> made.store, log |-> made.raised,
              result |-> IndexResult("error", 0, 0, <<made.raised>>)]
        ELSE [store |-> made.store, log |-> "none",
              result |-> IndexResult("success", Len(documents),
                                     total_chars \div chunk_size, <<>>)]

\* index_vault that removes the vector store when create_index raises
index_vault_rollback(st, v, run, fail, written) ==
    LET file_paths == scan_documents(v)
        documents == load_documents(v, file_paths)
        made == create_index(st, v, documents, run, fail, written)
        total_chars == SumSeq([i \in 1..Len(documents) |-> documents[i].chars])
    IN  IF file_paths = <<>>
        THEN [store |-> st, log |-> "none",
              result |-> IndexResult("error", 0, 0, <<NoFilesMessage>>)]
        ELSE IF made.raised # "none"
        THEN [store |-> [made.store EXCEPT ![vector_store_path(v)] = NoDir],
              log |-> made.raised,
              result |-> IndexResult("error", 0, 0, <<made.raised>>)]
        ELSE [store |-> made.store, log |-> "none",
              result |-> IndexResult("success", Len(documents),
                                     total_chars \div chunk_size, <<>>)]

\* VaultIndexer.index_vault: [store, result, log]
index_vault(st, v, run, fail, written) ==
    LET file_paths == scan_documents(v)
        documents == load_documents(v, file_paths)
        made == create_index(st, v, documents, run, fail, written)
        total_chars == SumSeq([i \in 1..Len(documents) |-> documents[i].chars])
    IN  IF file_paths = <<>>
        THEN [store |-> st, log |-> "none",
              result |-> IndexResult("error", 0, 0, <<NoFilesMessage>>)]
        ELSE IF made.raised # "none"
        THEN [store |-> made.store, log |-> made.raised,
              result |-> IndexResult("error", 0, 0, <<made.raised>>)]
        ELSE [store |-> made.store, log |-> "none",
              result |-> IndexResult("success", Len(documents),
                                     total_chars \div chunk_size, <<>>)]

\* clear_index that deletes the vault's collection and leaves the location
clear_index_own_collection(st, v) ==
    LET loc == vector_store_path(v)
        name == vault_config[v].name
    IN  IF st[loc].exists
        THEN [st EXCEPT ![loc].has = @ \ {name}, ![loc].chunks[name] = {}]
        ELSE st

\* VaultIndexer.clear_index: shutil.rmtree of the whole location
clear_index(st, v) ==
    LET loc == vector_store_path(v)
    IN  IF st[loc].exists THEN [st EXCEPT ![loc] = NoDir] ELSE st

---------------------------------------------------------------------------
(* The environment: what the retriever returns *)

\* similarity scores a node may carry, in tenths
Scores == {2, 3, 5}

\* the min_score values callers pass (0.0 and the configured 0.3)
MinScores == {0, min_relevance_score}

\* queries, named by the indexed file they are a substring of
Queries == {"a.md", "n/b.md"}

\* character budgets callers pass
MaxCharsValues == {50, 700, 950, 2000}

\* VectorSearcher._index: None, or an index over the vault's collection.
\* orphan: the location was removed after the index was loaded; data is
\* what the open handle still reaches.
NoIndex == [loaded |-> FALSE, orphan |-> FALSE, data |-> {}]

LoadedIndex == [loaded |-> TRUE, orphan |-> FALSE, data |-> {}]

\* the chunks a loaded index reads
IndexedChunks(index, st, v) ==
    IF index.orphan THEN index.data
    ELSE st[vector_store_path(v)].chunks[vault_config[v].name]

\* node.score is Optional[float]: <<>> is None, <<s>> is s
ScoreLists(m) ==
    {[i \in 1..m |-> <<>>]} \cup
    {[i \in 1..m |-> <<s[i]>>] : s \in
        {t \in [1..m -> Scores] : \A i \in 1..m, j \in 1..m : i < j => t[i] >= t[j]}}

\* retriever.retrieve(query) with similarity_top_k = top_k: the top_k
\* nearest stored chunks (all of them when fewer are stored), ranked by
\* similarity; the similarities are reported for every node or for none
RetrievedNodes(chunks, top_k) ==
    LET m == Min(top_k, Cardinality(chunks))
        picks == {p \in [1..m -> chunks] : \A i \in 1..m, j \in 1..m : i # j => p[i] # p[j]}
    IN  {[i \in 1..m |->
            [file_path |-> p[i].file_path, part |-> p[i].part, score |-> sc[i]]] :
                p \in picks, sc \in ScoreLists(m)}

---------------------------------------------------------------------------
(* core/searcher.py *)

NotFound == {"FileNotFoundError", "ValueError"}

\* _load_index with "if self.vector_store_path.exists(): raise"
load_index_inverted_check(cache, st, v, fail) ==
    LET loc == vector_store_path(v)
    IN  IF cache.loaded THEN [raised |-> "none", index |-> cache]
        ELSE IF st[loc].exists
        THEN [raised |-> "FileNotFoundError", index |-> cache]
        ELSE IF fail \in {"embed_model", "client"}
        THEN [raised |-> fail, index |-> cache]
        ELSE [raised |-> "ValueError", index |-> cache]

\* VectorSearcher._load_index: [raised, index]
load_index(cache, st, v, fail) ==
    LET loc == vector_store_path(v)
    IN  IF cache.loaded THEN [raised |-> "none", index |-> cache]
        ELSE IF ~st[loc].exists
        THEN [raised |-> "FileNotFoundError", index |-> cache]
        ELSE IF fail \in {"embed_model", "client"}
        THEN [raised |-> fail, index |-> cache]
        ELSE IF vault_config[v].name \notin st[loc].has
        THEN [raised |-> "ValueError", index |-> cache]
        ELSE [raised |-> "none", index |-> LoadedIndex]

\* node.score if node.score is not None else 0.0
score_of(node) == IF node.score = <<>> THEN 0 ELSE node.score[1]

SearchResult(node) ==
    [file_path |-> node.file_path, score |-> score_of(node),
     chunk |-> [file_path |-> node.file_path, part |-> node.part]]

\* raised: the exception that reaches the caller instead of a response;
\* min_score and top_k: the arguments of the call
SearchResponse(status, query, results, count, min_score, top_k) ==
    [op |-> "search", status |-> status, query |-> query, results |-> results,
     count |-> count, raised |-> "none",
     min_score |-> min_score, top_k |-> top_k]

\* search_results without the "if score < min_score: continue"
search_results_unfiltered(nodes, min_score) ==
    [i \in 1..Len(nodes) |-> SearchResult(nodes[i])]

\* search_results with results.insert(0, result) for results.append(result)
RECURSIVE search_results_newest_first(_, _)
search_results_newest_first(nodes, min_score) ==
    IF nodes = <<>> THEN <<>>
    ELSE IF score_of(Head(nodes)) < min_score
    THEN search_results_newest_first(Tail(nodes), min_score)
    ELSE search_results_newest_first(Tail(nodes), min_score) \o <<SearchResult(Head(nodes))>>

\* the loop of search over the retrieved nodes
RECURSIVE search_results(_, _)
search_results(nodes, min_score) ==
    IF nodes = <<>> THEN <<>>
    ELSE IF score_of(Head(nodes)) < min_score
    THEN search_results(Tail(nodes), min_score)
    ELSE <<SearchResult(Head(nodes))>> \o search_results(Tail(nodes), min_score)

\* search with "except (FileNotFoundError, ValueError)" for "except Exception"
search_uncaught(cache, st, v, query, top_k, min_score, fail, nodes) ==
    LET loaded == load_index(cache, st, v, fail)
        escaped(exc) ==
            [SearchResponse("none", query, <<>>, 0, min_score, top_k) EXCEPT !.raised = exc]
    IN  IF loaded.raised \in NotFound
        THEN [resp |-> SearchResponse("error", query, <<>>, 0, min_score, top_k),
              log |-> loaded.raised, index |-> loaded.index]
        ELSE IF loaded.raised # "none"
        THEN [resp |-> escaped(loaded.raised), log |-> "none", index |-> loaded.index]
        ELSE IF fail = "retrieve"
        THEN [resp |-> escaped(fail), log |-> "none", index |-> loaded.index]
        ELSE LET results == search_results(nodes, min_score)
             IN  [resp |-> SearchResponse("success", query, results, Len(results),
                                          min_score, top_k),
                  log |-> "none", index |-> loaded.index]

\* VectorSearcher.search: [resp, log, index].  fail: where the backend
\* raises; nodes: what retrieve returns when it does not
search(cache, st, v, query, top_k, min_score, fail, nodes) ==
    LET loaded == load_index(cache, st, v, fail)
    IN  IF loaded.raised # "none"
        THEN [resp |-> SearchResponse("error", query, <<>>, 0, min_score, top_k),
              log |-> loaded.raised, index |-> loaded.index]
        ELSE IF fail = "retrieve"
        THEN [resp |-> SearchResponse("error", query, <<>>, 0, min_score, top_k),
              log |-> fail, index |-> loaded.index]
        ELSE LET results == search_results(nodes, min_score)
             IN  [resp |-> SearchResponse("success", query, results, Len(results),
                                          min_score, top_k),
                  log |-> "none", index |-> loaded.index]

ChunkLen(chunk) == ChunkChars(chunk.file_path)[chunk.part]

\* one element of context_parts: "## {file_path}\n\n{chunk}", the chunk cut
\* to chars characters and followed by "..." when marker
ContextPart(file_path, chars, marker) ==
    [file_path |-> file_path, chars |-> chars, marker |-> marker]

RAGSource(result, char_count) ==
    [file_name |-> FileName(result.file_path), file_path |-> result.file_path,
     relevance_score |-> result.score, char_count |-> char_count]

\* the packing loop cutting an over-budget chunk whenever any budget is left
RECURSIVE pack_loop_no_minimum(_, _, _, _, _)
pack_loop_no_minimum(results, max_chars, context_parts, sources, total_chars) ==
    IF results = <<>>
    THEN [context_parts |-> context_parts, sources |-> sources]
    ELSE LET result == Head(results)
             chunk_len == ChunkLen(result.chunk)
             remaining == max_chars - total_chars
         IN  IF total_chars + chunk_len > max_chars
             THEN IF remaining > 0
                  THEN [context_parts |-> Append(context_parts,
                            ContextPart(result.file_path, Min(remaining, chunk_len), TRUE)),
                        sources |-> sources]
                  ELSE [context_parts |-> context_parts, sources |-> sources]
             ELSE pack_loop_no_minimum(Tail(results), max_chars,
                      Append(context_parts, ContextPart(result.file_path, chunk_len, FALSE)),
                      Append(sources, RAGSource(result, chunk_len)),
                      total_chars + chunk_len)

\* the packing loop cutting an over-budget chunk to max_chars characters
RECURSIVE pack_loop_cut_to_max(_, _, _, _, _)
pack_loop_cut_to_max(results, max_chars, context_parts, sources, total_chars) ==
    IF results = <<>>
    THEN [context_parts |-> context_parts, sources |-> sources]
    ELSE LET result == Head(results)
             chunk_len == ChunkLen(result.chunk)
             remaining == max_chars - total_chars
         IN  IF total_chars + chunk_len > max_chars
             THEN IF remaining > MinRemaining
                  THEN [context_parts |-> Append(context_parts,
                            ContextPart(result.file_path, Min(max_chars, chunk_len), TRUE)),
                        sources |-> sources]
                  ELSE [context_parts |-> context_parts, sources |-> sources]
             ELSE pack_loop_cut_to_max(Tail(results), max_chars,
                      Append(context_parts, ContextPart(result.file_path, chunk_len, FALSE)),
                      Append(sources, RAGSource(result, chunk_len)),
                      total_chars + chunk_len)

\* the packing loop cutting a chunk when exactly MinRemaining is left
RECURSIVE pack_loop_at_least(_, _, _, _, _)
pack_loop_at_least(results, max_chars, context_parts, sources, total_chars) ==
    IF results = <<>>
    THEN [context_parts |-> context_parts, sources |-> sources]
    ELSE LET result == Head(results)
             chunk_len == ChunkLen(result.chunk)
             remaining == max_chars - total_chars
         IN  IF total_chars + chunk_len > max_chars
             THEN IF remaining >= MinRemaining
                  THEN [context_parts |-> Append(context_parts,
                            ContextPart(result.file_path, Min(remaining, chunk_len), TRUE)),
                        sources |-> sources]
                  ELSE [context_parts |-> context_parts, sources |-> sources]
             ELSE pack_loop_at_least(Tail(results), max_chars,
                      Append(context_parts, ContextPart(result.file_path, chunk_len, FALSE)),
                      Append(sources, RAGSource(result, chunk_len)),
                      total_chars + chunk_len)

\* the packing loop going on to the next result after an over-budget chunk
RECURSIVE pack_loop_no_break(_, _, _, _, _)
pack_loop_no_break(results, max_chars, context_parts, sources, total_chars) ==
    IF results = <<>>
    THEN [context_parts |-> context_parts, sources |-> sources]
    ELSE LET result == Head(results)
             chunk_len == ChunkLen(result.chunk)
             remaining == max_chars - total_chars
         IN  IF total_chars + chunk_len > max_chars
             THEN IF remaining > MinRemaining
                  THEN pack_loop_no_break(Tail(results), max_chars,
                           Append(context_parts,
                               ContextPart(result.file_path, Min(remaining, chunk_len), TRUE)),
                           sources, total_chars)
                  ELSE pack_loop_no_break(Tail(results), max_chars,
                           context_parts, sources, total_chars)
             ELSE pack_loop_no_break(Tail(results), max_chars,
                      Append(context_parts, ContextPart(result.file_path, chunk_len, FALSE)),
                      Append(sources, RAGSource(result, chunk_len)),
                      total_chars + chunk_len)

\* the packing loop of get_rag_context: [context_parts, sources]
RECURSIVE pack_loop(_, _, _, _, _)
pack_loop(results, max_chars, context_parts, sources, total_chars) ==
    IF results = <<>>
    THEN [context_parts |-> context_parts, sources |-> sources]
    ELSE LET result == Head(results)
             chunk_len == ChunkLen(result.chunk)
             remaining == max_chars - total_chars
         IN  IF total_chars + chunk_len > max_chars
             THEN IF remaining > MinRemaining
                  THEN [context_parts |-> Append(context_parts,
                            ContextPart(result.file_path, Min(remaining, chunk_len), TRUE)),
                        sources |-> sources]
                  ELSE [context_parts |-> context_parts, sources |-> sources]
             ELSE pack_loop(Tail(results), max_chars,
                      Append(context_parts, ContextPart(result.file_path, chunk_len, FALSE)),
                      Append(sources, RAGSource(result, chunk_len)),
                      total_chars + chunk_len)

\* len(file_path)
PathLen(rel) ==
    CASE rel = "a.md" -> 4
      [] rel \in {"n/b.md", "n/c.md"} -> 6
      [] rel = "n/../a.md" -> 9
      [] OTHER -> 11

\* len("\n\n---\n\n".join(context_parts))
context_len(context_parts) ==
    LET part_len(p) == 3 + PathLen(p.file_path) + 2 + p.chars + (IF p.marker THEN 3 ELSE 0)
    IN  IF context_parts = <<>> THEN 0
        ELSE SumSeq([i \in 1..Len(context_parts) |-> part_len(context_parts[i])])
             + 7 * (Len(context_parts) - 1)

RAGResponse(status, query, context, sources, context_length, max_chars, max_sources) ==
    [op |-> "get_rag_context", status |-> status, query |-> query,
     context |-> context, sources |-> sources,
     context_length |-> context_length, raised |-> "none",
     max_chars |-> max_chars, max_sources |-> max_sources]

\* get_rag_context packing whatever the search returned unless it failed
get_rag_context_no_empty_check(cache, st, v, query, max_chars, max_sources, fail, nodes) ==
    LET found == search(cache, st, v, query, max_sources, min_relevance_score, fail, nodes)
        packed == pack_loop(found.resp.results, max_chars, <<>>, <<>>, 0)
    IN  IF found.resp.status = "error"
        THEN [resp |-> RAGResponse("error", query, <<>>, <<>>, 0, max_chars, max_sources),
              log |-> found.log, index |-> found.index,
              search_response |-> found.resp]
        ELSE [resp |-> RAGResponse("success", query, packed.context_parts,
                                   packed.sources, context_len(packed.context_parts),
                                   max_chars, max_sources),
              log |-> found.log, index |-> found.index,
              search_response |-> found.resp]

\* VectorSearcher.get_rag_context: [resp, log, index, search_response], the
\* last being the response of the search it made
get_rag_context(cache, st, v, query, max_chars, max_sources, fail, nodes) ==
    LET found == search(cache, st, v, query, max_sources, min_relevance_score, fail, nodes)
        packed == pack_loop(found.resp.results, max_chars, <<>>, <<>>, 0)
    IN  IF found.resp.status = "error" \/ found.resp.results = <<>>
        THEN [resp |-> RAGResponse("error", query, <<>>, <<>>, 0, max_chars, max_sources),
              log |-> found.log, index |-> found.index,
              search_response |-> found.resp]
        ELSE [resp |-> RAGResponse("success", query, packed.context_parts,
                                   packed.sources, context_len(packed.context_parts),
                                   max_chars, max_sources),
              log |-> found.log, index |-> found.index,
              search_response |-> found.resp]

VaultStats(status, document_count, chunk_count) ==
    [op |-> "get_stats", status |-> status, document_count |-> document_count,
     chunk_count |-> chunk_count, raised |-> "none"]

\* the file_path of a record whose metadata has no such key
NoFilePath == "<no file_path>"

\* a record of a collection that the indexer did not write: its metadata
\* has no file_path
ForeignChunk(k) == [run |-> 0, file_path |-> NoFilePath, part |-> k]

\* meta.get("file_path", "")
meta_get_file_path(c) == IF c.file_path = NoFilePath THEN "" ELSE c.file_path

\* VectorSearcher.get_stats: [resp, log]
get_stats(st, v, fail) ==
    LET loc == vector_store_path(v)
        name == vault_config[v].name
        chunks == st[loc].chunks[name]
        chunk_count == Cardinality(chunks)
        document_count == Cardinality({meta_get_file_path(c) : c \in chunks})
    IN  IF ~st[loc].exists
        THEN [resp |-> VaultStats("error", 0, 0), log |-> "none"]
        ELSE IF fail = "client"
        THEN [resp |-> VaultStats("error", 0, 0), log |-> fail]
        ELSE IF name \notin st[loc].has
        THEN [resp |-> VaultStats("error", 0, 0), log |-> "ValueError"]
        ELSE [resp |-> VaultStats("success",
                           IF document_count > 0 THEN document_count
                           ELSE chunk_count \div 3,
                           chunk_count),
              log |-> "none"]

---------------------------------------------------------------------------
(* api/client.py: the entry points, and the state machine *)

\* where the backend can raise during an index run and during a search
IndexFailures == {"none", "embed_model", "client", "insert"}
SearchFailures == {"none", "embed_model", "client", "retrieve"}

\* the searcher an operation runs on: the one ObsidianRAG builds for the
\* call, or a VectorSearcher the caller keeps between calls
Searchers == {"fresh", "held"}

Init ==
    /\ vault_config \in
         {[v \in Vaults |->
             [name |-> v,
              dirs |-> IF v = "A" THEN d ELSE <<".">>,
              vector_store |-> IF v = "A" THEN "L1" ELSE l]] :
                 d \in DirConfigs, l \in Locs}
    /\ store = [l \in Locs |-> NoDir]
    /\ runs = 0
    /\ config_files = LoadedFiles
    /\ pc = "idle"
    /\ call = [vault |-> "A", force |-> FALSE, before |-> {}]
    /\ ret = [op |-> "none", vault |-> "A"]
    /\ log = "none"
    /\ self_index = [v \in Vaults |-> NoIndex]

\* ConfigLoader.load_global_config
LoadGlobalConfig ==
    /\ pc = "idle"
    /\ LET out == load_global_config(config_files.global)
       IN  /\ ret' = [op |-> "load_global_config", vault |-> "A",
                      raised |-> "none", config |-> out.config]
           /\ config_files' = [config_files EXCEPT !.global = out.file]
    /\ UNCHANGED <<vault_config, store, runs, pc, call, log, self_index>>

\* ConfigLoader.load_vault_config(vault_path)
LoadVaultConfig(v) ==
    /\ pc = "idle"
    /\ ret' = load_vault_config(config_files.vault[v], v)
                 @@ [op |-> "load_vault_config", vault |-> v]
    /\ UNCHANGED <<config_files, vault_config, store, runs, pc, call, log, self_index>>

\* ObsidianRAG.index_vault / reindex_vault, entered
CallIndexVault(v, force) ==
    /\ pc = "idle"
    /\ runs < MaxRuns
    /\ pc' = IF force THEN "clear_index" ELSE "index_vault"
    /\ call' = [vault |-> v, force |-> force,
                before |-> ChunksAt(store, vector_store_path(v))]
    /\ ret' = [op |-> "pending", vault |-> v]
    /\ log' = "none"
    /\ UNCHANGED <<config_files, vault_config, store, runs, self_index>>

\* the handles of long-lived searchers after the location is removed
orphaned(st, loc) ==
    [v \in Vaults |->
        IF /\ self_index[v].loaded
           /\ ~self_index[v].orphan
           /\ vector_store_path(v) = loc
           /\ st[loc].exists
        THEN [loaded |-> TRUE, orphan |-> TRUE,
              data |-> st[loc].chunks[vault_config[v].name]]
        ELSE self_index[v]]

\* if force: indexer.clear_index()
ClearIndex ==
    /\ pc = "clear_index"
    /\ store' = clear_index(store, call.vault)
    /\ self_index' = orphaned(store, vector_store_path(call.vault))
    /\ pc' = "index_vault"
    /\ UNCHANGED <<config_files, vault_config, runs, call, ret, log>>

\* return indexer.index_vault(progress_callback)
IndexVault(fail) ==
    /\ pc = "index_vault"
    /\ LET v == call.vault
           nodes == split_documents(load_documents(v, scan_documents(v)))
       IN  \E written \in 0..(IF fail = "insert" THEN Len(nodes) - 1 ELSE 0) :
             LET out == index_vault(store, v, runs + 1, fail, written)
             IN  /\ store' = out.store
                 /\ ret' = out.result @@ [vault |-> v]
                 /\ log' = out.log
    /\ runs' = IF scan_documents(call.vault) = <<>> THEN runs ELSE runs + 1
    /\ pc' = "idle"
    /\ UNCHANGED <<config_files, vault_config, call, self_index>>

\* the process stops inside index_vault, between or before its steps
Stop ==
    /\ pc # "idle"
    /\ pc' = "idle"
    /\ ret' = [op |-> "stopped", vault |-> call.vault, at |-> pc]
    /\ UNCHANGED <<config_files, vault_config, store, runs, call, log, self_index>>

\* the nodes the backend may return to a search on this searcher
Retrievable(cache, v, top_k, fail) ==
    LET loaded == load_index(cache, store, v, fail)
    IN  IF loaded.raised = "none" /\ fail # "retrieve"
        THEN RetrievedNodes(IndexedChunks(loaded.index, store, v), top_k)
        ELSE {<<>>}

Cache(v, inst) == IF inst = "held" THEN self_index[v] ELSE NoIndex

Kept(v, inst, index) ==
    IF inst = "held" THEN [self_index EXCEPT ![v] = index] ELSE self_index

\* ObsidianRAG.search / VectorSearcher.search
Search(v, inst, query, top_k, min_score, fail) ==
    /\ pc = "idle"
    /\ \E nodes \in Retrievable(Cache(v, inst), v, top_k, fail) :
         LET out == search(Cache(v, inst), store, v, query, top_k, min_score, fail, nodes)
         IN  /\ ret' = out.resp @@ [vault |-> v, inst |-> inst]
             /\ log' = out.log
             /\ self_index' = Kept(v, inst, out.index)
    /\ UNCHANGED <<config_files, vault_config, store, runs, pc, call>>

\* ObsidianRAG.get_rag_context / VectorSearcher.get_rag_context; ret keeps
\* beside the response the search_response the call worked from
GetRagContext(v, inst, query, max_chars, max_sources, fail) ==
    /\ pc = "idle"
    /\ \E nodes \in Retrievable(Cache(v, inst), v, max_sources, fail) :
         LET out == get_rag_context(Cache(v, inst), store, v, query,
                                    max_chars, max_sources, fail, nodes)
         IN  /\ ret' = out.resp @@ [vault |-> v, inst |-> inst,
                                     search_response |-> out.search_response]
             /\ log' = out.log
             /\ self_index' = Kept(v, inst, out.index)
    /\ UNCHANGED <<config_files, vault_config, store, runs, pc, call>>

\* ObsidianRAG.get_stats
GetStats(v, fail) ==
    /\ pc = "idle"
    /\ LET out == get_stats(store, v, fail)
       IN  /\ ret' = out.resp @@ [vault |-> v]
           /\ log' = out.log
    /\ UNCHANGED <<config_files, vault_config, store, runs, pc, call, self_index>>

\* The index lifecycle of both vaults, searched through the entry points
\* of ObsidianRAG with top_k = 1 and the configured minimum score
Next ==
    \/ \E v \in Vaults, force \in BOOLEAN : CallIndexVault(v, force)
    \/ ClearIndex
    \/ \E fail \in IndexFailures : IndexVault(fail)
    \/ Stop
    \/ \E v \in Vaults, query \in Queries, fail \in SearchFailures :
            Search(v, "fresh", query, 1, min_relevance_score, fail)
    \/ \E v \in Vaults, fail \in {"none", "client"} : GetStats(v, fail)

Spec == Init /\ [][Next]_vars

\* the store after n successful index runs of vault v on an empty store
RECURSIVE Indexed(_, _)
Indexed(v, n) ==
    IF n = 0 THEN [l \in Locs |-> NoDir]
    ELSE index_vault(Indexed(v, n - 1), v, n, "none", 0).store

\* search and get_rag_context as functions of their arguments and of what
\* the backend returns, on vault A not indexed, indexed once, or more often;
\* one call is applied to each input
InitSearch ==
    /\ vault_config =
         [v \in Vaults |->
             [name |-> v, dirs |-> <<".">>,
              vector_store |-> IF v = "A" THEN "L1" ELSE "L2"]]
    /\ \E n \in 0..MaxRuns : /\ store = Indexed("A", n)
                             /\ runs = n
    /\ config_files = LoadedFiles
    /\ pc = "idle"
    /\ call = [vault |-> "A", force |-> FALSE, before |-> {}]
    /\ ret = [op |-> "none", vault |-> "A"]
    /\ log = "none"
    /\ self_index = [v \in Vaults |-> NoIndex]

NextSearch ==
    /\ ret.op = "none"
    /\ \/ \E query \in Queries, top_k \in 1..MaxTopK, min_score \in MinScores,
          fail \in SearchFailures :
              Search("A", "fresh", query, top_k, min_score, fail)
       \/ \E query \in Queries, max_chars \in MaxCharsValues,
             max_sources \in 1..MaxTopK, fail \in SearchFailures :
              GetRagContext("A", "fresh", query, max_chars, max_sources, fail)

SpecSearch == InitSearch /\ [][NextSearch]_vars

\* every list of up to n entries
RECURSIVE DirLists(_)
DirLists(n) ==
    IF n = 0 THEN {<<>>}
    ELSE LET shorter == DirLists(n - 1)
         IN  shorter \cup {Append(d, e) : d \in shorter, e \in DirEntries}

\* VaultIndexer.scan_documents, called on its own
ScanDocuments(v) ==
    /\ pc = "idle"
    /\ ret' = [op |-> "scan_documents", vault |-> v, md_files |-> scan_documents(v)]
    /\ UNCHANGED <<config_files, vault_config, store, runs, pc, call, log, self_index>>

\* scan_documents as a function of vault_config.dirs: vault A lists any
\* entries, overlapping, repeated, missing or naming one place twice
InitScan ==
    /\ vault_config \in
         {[v \in Vaults |->
             [name |-> v,
              dirs |-> IF v = "A" THEN d ELSE <<".">>,
              vector_store |-> IF v = "A" THEN "L1" ELSE "L2"]] :
                 d \in DirLists(MaxDirs)}
    /\ store = [l \in Locs |-> NoDir]
    /\ runs = 0
    /\ config_files = LoadedFiles
    /\ pc = "idle"
    /\ call = [vault |-> "A", force |-> FALSE, before |-> {}]
    /\ ret = [op |-> "none", vault |-> "A"]
    /\ log = "none"
    /\ self_index = [v \in Vaults |-> NoIndex]

NextScan == \E v \in Vaults : ScanDocuments(v)

\* the store with k records without file_path added to the collection of v
WithForeign(st, v, k) ==
    LET loc == vector_store_path(v)
        name == vault_config[v].name
    IN  IF k = 0 THEN st
        ELSE [st EXCEPT ![loc] =
                 [exists |-> TRUE,
                  has |-> st[loc].has \cup {name},
                  chunks |-> [st[loc].chunks EXCEPT
                      ![name] = @ \cup {ForeignChunk(i) : i \in 1..k}]]]

\* get_stats as a function of the collection it reads: vault A not indexed
\* or indexed, its collection holding records of another writer or not
InitStats ==
    /\ vault_config \in
         {[v \in Vaults |->
             [name |-> v, dirs |-> <<".">>,
              vector_store |-> IF v = "A" THEN "L1" ELSE l]] : l \in Locs}
    /\ \E n \in 0..MaxRuns, k \in 0..MaxForeign :
          /\ store = WithForeign(Indexed("A", n), "A", k)
          /\ runs = n
    /\ config_files = LoadedFiles
    /\ pc = "idle"
    /\ call = [vault |-> "A", force |-> FALSE, before |-> {}]
    /\ ret = [op |-> "none", vault |-> "A"]
    /\ log = "none"
    /\ self_index = [v \in Vaults |-> NoIndex]

NextStats == \E v \in Vaults, fail \in {"none", "client"} : GetStats(v, fail)

SpecStats == InitStats /\ [][NextStats]_vars

\* `arg or default` on an Optional argument: <<>> is None, and Python
\* takes 0 and 0.0 for false as it does None
or_default(arg, default) ==
    IF arg = <<>> THEN default
    ELSE IF arg[1] = 0 THEN default
    ELSE arg[1]

\* ObsidianRAG.search(query, top_k, min_score) with its Optional
\* arguments; ret keeps beside the response the arguments given
ClientSearch(v, query, top_k, min_score, fail) ==
    /\ pc = "idle"
    /\ LET k == or_default(top_k, GlobalConfig.default_top_k)
           m == or_default(min_score, GlobalConfig.min_relevance_score)
       IN  \E nodes \in Retrievable(NoIndex, v, k, fail) :
             LET out == search(NoIndex, store, v, query, k, m, fail, nodes)
             IN  /\ ret' = out.resp @@ [vault |-> v, inst |-> "fresh",
                                         given |-> [top_k |-> top_k,
                                                    min_score |-> min_score]]
                 /\ log' = out.log
    /\ UNCHANGED <<config_files, vault_config, store, runs, pc, call, self_index>>

\* ObsidianRAG.get_rag_context(query, max_chars, max_sources) with its
\* Optional arguments
ClientGetRagContext(v, query, max_chars, max_sources, fail) ==
    /\ pc = "idle"
    /\ LET c == or_default(max_chars, GlobalConfig.default_max_chars)
           k == or_default(max_sources, default_max_sources)
       IN  \E nodes \in Retrievable(NoIndex, v, k, fail) :
             LET out == get_rag_context(NoIndex, store, v, query, c, k, fail, nodes)
             IN  /\ ret' = out.resp @@ [vault |-> v, inst |-> "fresh",
                                         search_response |-> out.search_response,
                                         given |-> [max_chars |-> max_chars,
                                                    max_sources |-> max_sources]]
                 /\ log' = out.log
    /\ UNCHANGED <<config_files, vault_config, store, runs, pc, call, self_index>>

\* the Optional arguments a caller passes: none, zero, or another value
GivenTopK == {<<>>, <<0>>, <<1>>, <<2>>}
GivenMinScore == {<<>>, <<0>>, <<3>>, <<5>>}
GivenMaxChars == {<<>>, <<0>>, <<700>>}
GivenMaxSources == {<<>>, <<0>>, <<1>>}

\* the entry points of ObsidianRAG as functions of their Optional
\* arguments, on vault A not indexed or indexed once
InitClient ==
    /\ vault_config =
         [v \in Vaults |->
             [name |-> v, dirs |-> <<".">>,
              vector_store |-> IF v = "A" THEN "L1" ELSE "L2"]]
    /\ \E n \in {0, 1} : /\ store = Indexed("A", n)
                          /\ runs = n
    /\ config_files = LoadedFiles
    /\ pc = "idle"
    /\ call = [vault |-> "A", force |-> FALSE, before |-> {}]
    /\ ret = [op |-> "none", vault |-> "A"]
    /\ log = "none"
    /\ self_index = [v \in Vaults |-> NoIndex]

NextClient ==
    /\ ret.op = "none"
    /\ \/ \E query \in Queries, top_k \in GivenTopK, min_score \in GivenMinScore,
             fail \in {"none", "retrieve"} :
              ClientSearch("A", query, top_k, min_score, fail)
       \/ \E query \in Queries, max_chars \in GivenMaxChars,
             max_sources \in GivenMaxSources, fail \in {"none", "retrieve"} :
              ClientGetRagContext("A", query, max_chars, max_sources, fail)

SpecClient == InitClient /\ [][NextClient]_vars

\* The index lifecycle of vault A while a caller keeps one VectorSearcher
\* between its searches, beside the searchers ObsidianRAG builds per call
NextHeld ==
    \/ \E force \in BOOLEAN : CallIndexVault("A", force)
    \/ ClearIndex
    \/ \E fail \in {"none", "embed_model"} : IndexVault(fail)
    \/ \E inst \in Searchers, query \in Queries, fail \in {"none", "retrieve"} :
            Search("A", inst, query, 1, min_relevance_score, fail)

SpecHeld == Init /\ [][NextHeld]_vars

\* the configuration loaders on every state of the files they read
InitConfig ==
    /\ config_files \in [global : GlobalFiles, vault : [Vaults -> VaultFiles]]
    /\ vault_config =
         [v \in Vaults |->
             [name |-> v, dirs |-> <<".">>,
              vector_store |-> IF v = "A" THEN "L1" ELSE "L2"]]
    /\ store = [l \in Locs |-> NoDir]
    /\ runs = 0
    /\ pc = "idle"
    /\ call = [vault |-> "A", force |-> FALSE, before |-> {}]
    /\ ret = [op |-> "none", vault |-> "A"]
    /\ log = "none"
    /\ self_index = [v \in Vaults |-> NoIndex]

NextConfig ==
    \/ LoadGlobalConfig
    \/ \E v \in Vaults : LoadVaultConfig(v)

SpecConfig == InitConfig /\ [][NextConfig]_vars

SpecScan == InitScan /\ [][NextScan]_vars

---------------------------------------------------------------------------
(* Properties *)

\* the collection of vault v
Collection(st, v) == st[vector_store_path(v)].chunks[vault_config[v].name]

HasCollection(st, v) == vault_config[v].name \in st[vector_store_path(v)].has

\* the step in which VaultIndexer.index_vault runs and returns
IndexStep == pc = "index_vault" /\ pc' = "idle" /\ ret'.op # "stopped"

\* C1: every result of a search has score >= the min_score of the call, a
\* node without a score counting as 0.
C1_ScoreAtLeastMin ==
    ret.op = "search" =>
        \A i \in 1..Len(ret.results) : ret.results[i].score >= ret.min_score

\* a search over two retrieved nodes kept one result and dropped the other
C1_Witness ==
    /\ ret.op = "search" /\ ret.status = "success"
    /\ ret.top_k = 2 /\ runs >= 1
    /\ ret.min_score = min_relevance_score
    /\ ret.count = 1

\* C2: the results of a search are non-increasing by score from first to
\* last, for every ranked list the backend returns.
C2_NonIncreasing ==
    ret.op = "search" =>
        \A i \in 1..Len(ret.results), j \in 1..Len(ret.results) :
            i < j => ret.results[i].score >= ret.results[j].score

\* a search returned two results of different scores
C2_Witness ==
    /\ ret.op = "search" /\ ret.status = "success"
    /\ Len(ret.results) = 2
    /\ ret.results[1].score > ret.results[2].score

\* C3: a search that fails because the vector-store path or the collection
\* is missing reaches the caller as a NotFound failure, not as the outcome
\* of a generic retrieval failure.
C3_NotFoundSurfaced ==
    (ret.op = "search" /\ log \in NotFound) => ret.raised \in NotFound

\* C4: search never raises, count is the length of results, and any failure
\* while loading, embedding or retrieving gives status=error with no result.
C4_ErrorResponse ==
    ret.op = "search" =>
        /\ ret.raised = "none"
        /\ ret.count = Len(ret.results)
        /\ ret.status \in {"success", "error"}
        /\ log # "none" =>
              ret.status = "error" /\ ret.results = <<>> /\ ret.count = 0

\* the retriever raised during a search on an indexed vault
C4_Witness ==
    /\ ret.op = "search" /\ log = "retrieve"
    /\ ret.status = "error"
    /\ Collection(store, ret.vault) # {}

\* C5: an index run that finds no markdown file returns status=error with
\* zero counts and the no-files message, and leaves the store as it was.
C5_NoFilesNoWrite ==
    [][(IndexStep /\ scan_documents(call.vault) = <<>>) =>
          /\ ret'.op = "index_vault"
          /\ ret'.status = "error"
          /\ ret'.documents_indexed = 0
          /\ ret'.chunks_created = 0
          /\ NoFilesMessage \in Range(ret'.errors)
          /\ store' = store]_vars

\* an index run found no file and the vector-store directory does not exist
C5_Witness ==
    /\ ret.op = "index_vault" /\ pc = "idle"
    /\ ret.errors = <<NoFilesMessage>>
    /\ ~store[vector_store_path(ret.vault)].exists

\* C6: with force, clear runs before index as a step of its own and removes
\* the whole location: no index exists between the two steps or after a
\* stop there, no chunk stored before the call is left when the call
\* returns, and search and stats on a vault without store report an error.
C6_ClearThenIndex ==
    /\ (pc = "index_vault" /\ call.force) =>
          ~store[vector_store_path(call.vault)].exists
    /\ (ret.op = "stopped" /\ ret.at = "index_vault" /\ call.force) =>
          ~store[vector_store_path(call.vault)].exists
    /\ (ret.op = "index_vault" /\ call.force) =>
          ChunksAt(store, vector_store_path(call.vault)) \cap call.before = {}
    /\ (ret.op = "search" /\ ~store[vector_store_path(ret.vault)].exists) =>
          ret.status = "error" /\ ret.results = <<>>
    /\ (ret.op = "get_stats" /\ ~store[vector_store_path(ret.vault)].exists) =>
          ret.status = "error" /\ ret.chunk_count = 0 /\ ret.document_count = 0

\* a reindex of an indexed vault returned success
C6_Witness ==
    /\ ret.op = "index_vault" /\ call.force
    /\ call.before # {}
    /\ ret.status = "success"

\* C7: when the embedding or the storage step raises, index_vault returns
\* status=error with zero counts and the captured message after one
\* attempt, and removes nothing: what existed before the run and what the
\* run created before the failure are still there.
C7_BackendFailure ==
    [][(IndexStep /\ log' \in IndexFailures \ {"none"}) =>
          LET loc == vector_store_path(call.vault)
          IN  /\ ret'.op = "index_vault"
              /\ ret'.status = "error"
              /\ ret'.documents_indexed = 0
              /\ ret'.chunks_created = 0
              /\ ret'.errors = <<log'>>
              /\ runs' = runs + 1
              /\ \A l \in Locs :
                    /\ store[l].exists => store'[l].exists
                    /\ store[l].has \subseteq store'[l].has
                    /\ \A n \in Vaults : store[l].chunks[n] \subseteq store'[l].chunks[n]
              /\ log' \in {"client", "insert"} => store'[loc].exists
              /\ log' = "insert" => HasCollection(store', call.vault)]_vars

\* an index run failed while storing, after it had stored a chunk
C7_Witness ==
    /\ ret.op = "index_vault" /\ ret.status = "error"
    /\ log = "insert"
    /\ \E c \in Collection(store, ret.vault) : c.run = runs

\* the files of vault v that an index run loads
IndexedFiles(v) ==
    LET documents == load_documents(v, scan_documents(v))
    IN  {documents[i].file_path : i \in 1..Len(documents)}

C9_OtherVaultUntouched ==
    [][(IndexStep /\ ~call.force) =>
          \A w \in Vaults \ {call.vault} :
              /\ Collection(store', w) = Collection(store, w)
              /\ HasCollection(store', w) <=> HasCollection(store, w)]_vars

\* vault A was indexed without force into the location that holds the
\* chunks of vault B
C9_Witness ==
    /\ ret.op = "index_vault" /\ ret.status = "success"
    /\ call.vault = "A" /\ ~call.force
    /\ vector_store_path("B") = vector_store_path("A")
    /\ Collection(store, "B") # {}
    /\ Collection(store, "A") # {}

\* C10: the sources of a RAG response are the chunks in its context, one
\* source per chunk, in order, with char_count the characters included.
C10_SourcePerChunk ==
    ret.op = "get_rag_context" =>
        /\ Len(ret.sources) = Len(ret.context)
        /\ \A i \in 1..Len(ret.sources) :
              /\ ret.sources[i].file_path = ret.context[i].file_path
              /\ ret.sources[i].char_count = ret.context[i].chars

\* the characters of chunk text in a context, without headers, separators
\* and markers
ContextChunkChars(context) ==
    SumSeq([i \in 1..Len(context) |-> context[i].chars])

\* the characters of the parts 1..n of a context
CharsBefore(context, n) ==
    SumSeq([i \in 1..n |-> context[i].chars])

\* C11 as stated: get_rag_context with max_chars = 50 on a best-ranked
\* chunk longer than 50 characters (every chunk of the vault is) returns
\* the chunk cut to the budget with the marker, and a source entry whose
\* char_count is the cut length.
C11_TruncatedAtFifty ==
    (ret.op = "get_rag_context" /\ ret.max_chars = 50
        /\ ret.search_response.status = "success"
        /\ ret.search_response.results # <<>>) =>
        /\ ret.status = "success"
        /\ Len(ret.context) = 1
        /\ ret.context[1].marker
        /\ ret.context[1].chars = 50
        /\ Len(ret.sources) = 1
        /\ ret.sources[1].char_count = ret.context[1].chars

\* C11 amended: get_rag_context with max_chars = 50 on a best-ranked chunk
\* longer than 50 characters succeeds with an empty context, no sources and
\* context_length 0: the 50 characters left are not more than MinRemaining,
\* so the chunk is dropped, not cut.
C11_DroppedAtFifty ==
    (ret.op = "get_rag_context" /\ ret.max_chars = 50
        /\ ret.search_response.status = "success"
        /\ ret.search_response.results # <<>>) =>
        /\ ret.status = "success"
        /\ ret.context = <<>>
        /\ ret.sources = <<>>
        /\ ret.context_length = 0

\* a context was asked with max_chars = 50 and the search found a chunk
C11_Witness ==
    /\ ret.op = "get_rag_context" /\ ret.max_chars = 50
    /\ ret.status = "success"
    /\ ret.search_response.count >= 1
    /\ ChunkLen(ret.search_response.results[1].chunk) > 50

\* C12: context_length is the length of the context string, and the chunk
\* text in the context, without headers, separators and the marker, is at
\* most max_chars characters.
C12_ContextWithinBudget ==
    ret.op = "get_rag_context" =>
        /\ ret.context_length = context_len(ret.context)
        /\ ContextChunkChars(ret.context) <= ret.max_chars

\* a context of a whole chunk and a cut one that uses the whole budget
C12_Witness ==
    /\ ret.op = "get_rag_context" /\ ret.status = "success"
    /\ Len(ret.context) = 2
    /\ ret.context[2].marker
    /\ ContextChunkChars(ret.context) = ret.max_chars

\* C13: a chunk is cut only when more than MinRemaining characters of the
\* budget are left, the fragment being what is left; when MinRemaining or
\* less is left the chunk that does not fit is dropped and packing stops.
C13_NoShortFragment ==
    (ret.op = "get_rag_context" /\ ret.status = "success") =>
        LET n == Len(ret.context)
            results == ret.search_response.results
        IN  /\ \A i \in 1..n :
                  ret.context[i].marker =>
                      /\ i = n
                      /\ ret.context[i].chars > MinRemaining
                      /\ ret.context[i].chars = ret.max_chars - CharsBefore(ret.context, i - 1)
            /\ (n < Len(results) /\ (n = 0 \/ ~ret.context[n].marker)) =>
                  /\ CharsBefore(ret.context, n) + ChunkLen(results[n + 1].chunk)
                         > ret.max_chars
                  /\ ret.max_chars - CharsBefore(ret.context, n) <= MinRemaining

\* a chunk was dropped with exactly MinRemaining characters of budget left
C13_Witness ==
    /\ ret.op = "get_rag_context" /\ ret.status = "success"
    /\ Len(ret.context) = 1 /\ ~ret.context[1].marker
    /\ Len(ret.search_response.results) = 2
    /\ ret.max_chars - ret.context[1].chars = MinRemaining

\* C14: get_rag_context searches with top_k = max_sources and the
\* configured minimum score, raises nothing, and answers status error with
\* an empty context, no sources and context_length 0 whenever that search
\* failed or found nothing.
C14_ErrorOnEmptySearch ==
    ret.op = "get_rag_context" =>
        /\ ret.raised = "none"
        /\ ret.search_response.top_k = ret.max_sources
        /\ ret.search_response.min_score = min_relevance_score
        /\ (ret.search_response.status = "error"
               \/ ret.search_response.results = <<>>) =>
              /\ ret.status = "error"
              /\ ret.context = <<>>
              /\ ret.sources = <<>>
              /\ ret.context_length = 0

\* the search of a context request succeeded on an indexed vault and no
\* hit reached the minimum score
C14_Witness ==
    /\ ret.op = "get_rag_context" /\ ret.status = "error"
    /\ ret.search_response.status = "success"
    /\ ret.search_response.results = <<>>
    /\ Collection(store, ret.vault) # {}

\* C15: the context is made of a prefix of the ranked search results, in
\* their order, every part but a cut last one a whole chunk; packing stops
\* at the first result that does not fit whole, and at most max_sources
\* results are used.
C15_PrefixOfRanked ==
    (ret.op = "get_rag_context" /\ ret.status = "success") =>
        LET n == Len(ret.context)
            results == ret.search_response.results
        IN  /\ n <= Len(results)
            /\ Len(results) <= ret.max_sources
            /\ \A i \in 1..n :
                  /\ ret.context[i].file_path = results[i].file_path
                  /\ IF ret.context[i].marker
                     THEN /\ i = n
                          /\ ret.context[i].chars < ChunkLen(results[i].chunk)
                     ELSE /\ ret.context[i].chars = ChunkLen(results[i].chunk)
                          /\ CharsBefore(ret.context, i) <= ret.max_chars
            /\ (n < Len(results) /\ (n = 0 \/ ~ret.context[n].marker)) =>
                  CharsBefore(ret.context, n) + ChunkLen(results[n + 1].chunk)
                      > ret.max_chars

\* two results were found and both are in the context whole, in rank order
C15_Witness ==
    /\ ret.op = "get_rag_context" /\ ret.status = "success"
    /\ Len(ret.search_response.results) = 2
    /\ Len(ret.context) = 2
    /\ ~ret.context[1].marker /\ ~ret.context[2].marker
    /\ ret.search_response.results[1].chunk # ret.search_response.results[2].chunk

\* the files an entry of dirs leads to, when it exists
FilesBelow(v, dir_path) ==
    IF ~full_path_exists(v, dir_path) THEN {}
    ELSE IF is_file(v, dir_path) THEN {dir_path}
    ELSE {Resolve(rel) : rel \in rglob_md(v, dir_path)}

\* C16: scan_documents returns the markdown files of the entries that
\* exist in strictly ascending path order with no file listed twice,
\* whatever way dirs overlap, repeat or name one place twice, and
\* returns the same list when the unchanged tree is scanned again.
C16_SortedNoDuplicate ==
    [][ret'.op = "scan_documents" =>
          LET md_files == ret'.md_files
              dirs == vault_config[ret'.vault].dirs
          IN  /\ \A i, j \in 1..Len(md_files) :
                    i < j =>
                      /\ PathRank(md_files[i].rel) < PathRank(md_files[j].rel)
                      /\ Resolve(md_files[i].rel) # Resolve(md_files[j].rel)
              /\ \A k \in 1..Len(dirs) :
                    \A f \in FilesBelow(ret'.vault, dirs[k]) :
                        \E i \in 1..Len(md_files) : Resolve(md_files[i].rel) = f
              /\ (ret.op = "scan_documents" /\ ret.vault = ret'.vault) =>
                    md_files = ret.md_files]_vars

\* C17: get_stats reports as chunk_count the number of records of the
\* collection and as document_count the number of distinct file_path
\* values of their metadata, or chunk_count \div 3 when the records carry
\* no file_path.
C17_DocumentCount ==
    (ret.op = "get_stats" /\ ret.status = "success") =>
        LET chunks == Collection(store, ret.vault)
            with_path == {c \in chunks : c.file_path # NoFilePath}
        IN  /\ ret.chunk_count = Cardinality(chunks)
            /\ (with_path = chunks /\ chunks # {}) =>
                  ret.document_count = Cardinality({c.file_path : c \in chunks})
            /\ with_path = {} =>
                  ret.document_count = ret.chunk_count \div 3

\* C18: every GlobalConfig that load_global_config returns, the file being
\* present, missing or malformed, has chunk_overlap < chunk_size and
\* 0 <= min_relevance_score <= 1 (10 tenths).
C18_GlobalConfigInvariant ==
    ret.op = "load_global_config" =>
        /\ ret.raised = "none"
        /\ ret.config.chunk_overlap < ret.config.chunk_size
        /\ 0 <= ret.config.min_relevance_score
        /\ ret.config.min_relevance_score <= 10

\* C19: load_vault_config raises FileNotFoundError when the vault has no
\* .orag.toml and ValueError when the file cannot be parsed, returning no
\* configuration in either case; a file that parses gives its values, the
\* name defaulting to the vault directory's name, dirs to ["."] and
\* vector_store to ".vector_store".
C19_VaultConfigOrRaise ==
    ret.op = "load_vault_config" =>
        LET file == config_files.vault[ret.vault]
        IN  /\ file.state = "missing" =>
                  ret.raised = "FileNotFoundError" /\ "config" \notin DOMAIN ret
            /\ (file.state = "malformed" \/ (file.state = "parsed" /\ ~file.typed)) =>
                  ret.raised = "ValueError" /\ "config" \notin DOMAIN ret
            /\ (file.state = "parsed" /\ file.typed) =>
                  /\ ret.raised = "none"
                  /\ ret.config.name =
                        (IF file.name = <<>> THEN ret.vault ELSE file.name[1])
                  /\ ret.config.dirs =
                        (IF file.dirs = <<>> THEN <<".">> ELSE file.dirs[1])
                  /\ ret.config.vector_store =
                        (IF file.vector_store = <<>> THEN ".vector_store"
                         ELSE file.vector_store[1])

\* a vault without .orag.toml was loaded and FileNotFoundError raised
C19_Witness ==
    /\ ret.op = "load_vault_config"
    /\ config_files.vault[ret.vault].state = "missing"
    /\ ret.raised = "FileNotFoundError"

\* C20: a search made after the index was cleared and not built again
\* (the last index call was forced and the location is still absent) fails
\* as not-found and returns no result, on a searcher built for the call
\* and on one that served a search before the clear.
C20_NoSearchAfterClear ==
    (/\ ret.op = "search"
     /\ call.vault = ret.vault /\ call.force
     /\ ~store[vector_store_path(ret.vault)].exists) =>
        /\ ret.status = "error"
        /\ ret.results = <<>>
        /\ log \in NotFound

\* C21: ObsidianRAG.search and ObsidianRAG.get_rag_context pass every
\* argument the caller gave, zero included, to the searcher as given, and
\* the configured default only for an argument left out.
C21_ExplicitArgumentUsed ==
    /\ ret.op = "search" =>
          /\ ret.given.top_k # <<>> => ret.top_k = ret.given.top_k[1]
          /\ ret.given.top_k = <<>> => ret.top_k = default_top_k
          /\ ret.given.min_score # <<>> => ret.min_score = ret.given.min_score[1]
          /\ ret.given.min_score = <<>> => ret.min_score = min_relevance_score
    /\ ret.op = "get_rag_context" =>
          /\ ret.given.max_chars # <<>> => ret.max_chars = ret.given.max_chars[1]
          /\ ret.given.max_chars = <<>> => ret.max_chars = default_max_chars
          /\ ret.given.max_sources # <<>> =>
                ret.max_sources = ret.given.max_sources[1]
          /\ ret.given.max_sources = <<>> => ret.max_sources = default_max_sources

\* the chunk texts a collection holds, each the part of a source file
ChunkTexts(st, v) ==
    {[file_path |-> c.file_path, part |-> c.part] : c \in Collection(st, v)}

\* the chunk texts one index run of vault v stores
VaultChunkTexts(v) ==
    LET nodes == split_documents(load_documents(v, scan_documents(v)))
    IN  {[file_path |-> n.file_path, part |-> n.part] : n \in Range(nodes)}

\* the collection of vault v is what one successful index run leaves
IndexedOnce(st, v) ==
    /\ Collection(st, v) # {}
    /\ ChunkTexts(st, v) = VaultChunkTexts(v)
    /\ Cardinality(Collection(st, v)) = Cardinality(ChunkTexts(st, v))

\* C22: a successful index run without force on a vault whose collection
\* holds the chunks of one earlier run leaves the collection with the same
\* chunks: the same count, and no chunk text of a file stored twice.
C22_IndexIdempotent ==
    [][(/\ IndexStep /\ ~call.force
        /\ ret'.status = "success"
        /\ IndexedOnce(store, call.vault)) =>
          /\ Cardinality(Collection(store', call.vault))
                = Cardinality(Collection(store, call.vault))
          /\ ChunkTexts(store', call.vault) = ChunkTexts(store, call.vault)
          /\ Cardinality(Collection(store', call.vault))
                = Cardinality(ChunkTexts(store', call.vault))]_vars

====
